---- MODULE Spec2Model ----
(***************************************************************************)
(* binsnitch.py: the registry of tracked files (cached_db in memory,       *)
(* binsnitch_data/db.json on disk), its classifier check_file_status, its  *)
(* recorders add_file_to_db / add_alert_do_db, the flush write_to_db with  *)
(* its SIGINT handling, the startup preparation prepare_data_files and the *)
(* watch loop of scan.                                                     *)
(*                                                                         *)
(* binsnitch.py holds no caller of the classifier and the recorders        *)
(* (ChangeHandler.process only prints, main's call of prepare_data_files   *)
(* is commented out).  The functions are therefore driven by a caller that *)
(* passes them what their parameters are named for: file_info is an        *)
(* observation (path, sha256), status is what check_file_status returned   *)
(* for that file_info, add_file_to_db is given FILE_UNKNOWN files.         *)
(* logging.info is taken to append one line to alerts.log (the logging     *)
(* configuration is outside this model).                                   *)
(*                                                                         *)
(* Specifications: Spec (that caller, on a disk whose writes succeed),     *)
(* SpecFail (Spec with writes that can fail), SpecWatch (main as it is     *)
(* written: scan and the event handler only), SpecConc (the recorders line *)
(* by line, with a second thread calling check_file_status).               *)
(***************************************************************************)
EXTENDS Integers, Sequences, FiniteSets, TLC

VARIABLES
    args,        \* the parsed command line: wipe, baseline, new, and whether dir is a directory
    pc,          \* position of main/scan: "main", "prepared", "checked", "started", "watching", "exited"
    opc,         \* position inside a recorder call: "idle" or a line of write_to_db
    cached_db,   \* the global cached_db: None (set = FALSE) or a list of records
    db_json,     \* binsnitch_data/db.json: absent, a complete list, truncated or partly written
    alerts_log,  \* binsnitch_data/alerts.log: whether it exists and its lines by kind
    sigint,      \* disposition of SIGINT: "default", "ignore", "handler"
    saved_s,     \* the local s of write_to_db
    observer,    \* the watchdog Observer: "none", "running", "stopped"
    exit_code,   \* -1 while the process runs, else its exit status
    cur,         \* the observation being handled: file_info, its status, what was called for it
    last,        \* the last recorder call: its name, status, the list it loaded, the alerts it logged
    recorded,    \* the FILE_UNKNOWN and FILE_KNOWN_TOUCHED observations handed to their recorder so far
    int_in_flush,\* a SIGINT arrived while write_to_db had SIGINT ignored
    ops,         \* number of recorder calls made
    event,       \* the last watchdog event ChangeHandler.process handled
    flight,      \* a recorder call taken line by line: its local db_data, and cached_db at its start
    rd           \* a check_file_status call that runs while a recorder call is in flight

vars == <<args, pc, opc, cached_db, db_json, alerts_log, sigint, saved_s, observer,
          exit_code, cur, last, recorded, int_in_flush, ops, event, flight, rd>>

(* Bounds of the exploration. *)
NumDigests == 2
MaxOps == 3
MaxConcOps == 2

Paths == {"a.exe", "b.sh"}
Digests == 1..NumDigests

FILE_KNOWN_UNTOUCHED == "FILE_KNOWN_UNTOUCHED"
FILE_KNOWN_TOUCHED == "FILE_KNOWN_TOUCHED"
FILE_UNKNOWN == "FILE_UNKNOWN"

NoObservation ==
    [path |-> "", sha256 |-> 0, status |-> "NONE", added |-> FALSE, alerted |-> FALSE]

NoEvent == [src_path |-> "", sha256 |-> 0, event_type |-> "none", is_directory |-> FALSE]

NoFlight == [op |-> "none", pre |-> <<>>, db_data |-> <<>>]

NoRead == [pc |-> "none", path |-> "", sha256 |-> 0, list |-> <<>>, status |-> "NONE"]

NoCall ==
    [op |-> "none", status |-> "NONE", loaded |-> FALSE, before |-> <<>>, new |-> 0, mod |-> 0]

None == [set |-> FALSE, data |-> <<>>]

(* File contents. *)
Absent == [kind |-> "absent", data |-> <<>>]
Truncated == [kind |-> "empty", data |-> <<>>]
Partial == [kind |-> "partial", data |-> <<>>]
CompleteEmptied(db_data) == [kind |-> "ok", data |-> <<>>]

Complete(db_data) == [kind |-> "ok", data |-> db_data]

(***************************************************************************)
(* check_file_status                                                       *)
(***************************************************************************)

\* `x in list`
InHistoryLastOnly(hist, sha) == Len(hist) > 0 /\ hist[Len(hist)] = sha

InHistory(hist, sha) == \E i \in 1..Len(hist) : hist[i] = sha

FirstMatchNone(db, path) == 0

\* the first db_file of the loop whose path matches, 0 when none does
FirstMatch(db, path) ==
    LET idx == {i \in 1..Len(db) : db[i].path = path}
    IN  IF idx = {} THEN 0 ELSE CHOOSE i \in idx : \A j \in idx : i <= j

check_file_status(db, file_info) ==
    LET i == FirstMatch(db, file_info.path)
    IN  IF i = 0 THEN FILE_UNKNOWN
        ELSE IF InHistory(db[i].sha256, file_info.sha256) THEN FILE_KNOWN_UNTOUCHED
        ELSE FILE_KNOWN_TOUCHED

(***************************************************************************)
(* add_alert_do_db, add_file_to_db: the lists they build                   *)
(***************************************************************************)

RecordDigestDropped(hist, sha) == hist

\* lines 72-73: append the digest unless it is in the history
RecordDigest(hist, sha) ==
    IF \E i \in 1..Len(hist) : hist[i] = sha THEN hist ELSE Append(hist, sha)

\* lines 70-73, over every db_file of the loaded list
UpdatedDb(db_data, file_info) ==
    [i \in 1..Len(db_data) |->
        IF db_data[i].path = file_info.path
        THEN [db_data[i] EXCEPT !.sha256 = RecordDigest(@, file_info.sha256)]
        ELSE db_data[i]]

\* how many db_file of the loop match the path: each logs once per matching status
Matches(db_data, path) == Cardinality({i \in 1..Len(db_data) : db_data[i].path = path})

\* lines 75-79
LoggedNew(db_data, file_info, status) ==
    IF status = FILE_UNKNOWN THEN Matches(db_data, file_info.path) ELSE 0

LoggedModified(db_data, file_info, status) ==
    IF status = FILE_KNOWN_TOUCHED THEN Matches(db_data, file_info.path) ELSE 0

FileInfoToAddEmpty(file_info) == [path |-> file_info.path, sha256 |-> <<>>]

\* line 97
FileInfoToAdd(file_info) == [path |-> file_info.path, sha256 |-> <<file_info.sha256>>]

\* logging.info: one more line in alerts.log
Logged(log, new, modified) ==
    IF new + modified = 0 THEN log
    ELSE [log EXCEPT !.exists = TRUE, !.new = @ + new, !.mod = @ + modified]

Alive == pc # "exited"

\* scan runs to observer.join() (line 213); the events are handled from then on
Running == pc = "watching"

(***************************************************************************)
(* Init: the process starts with some command line, and with whatever an   *)
(* earlier run left in binsnitch_data.                                     *)
(***************************************************************************)
PriorDb ==
    {Absent, Partial, Complete(<<>>), Complete(<<[path |-> "a.exe", sha256 |-> <<1>>]>>)}

PriorAlerts ==
    {[exists |-> FALSE, old |-> 0, new |-> 0, mod |-> 0],
     [exists |-> TRUE, old |-> 1, new |-> 0, mod |-> 0]}

Init ==
    /\ args \in [wipe : BOOLEAN, baseline : BOOLEAN, new : BOOLEAN, isdir : BOOLEAN]
    /\ pc = "main"
    /\ opc = "idle"
    /\ cached_db = None
    /\ db_json \in PriorDb
    /\ alerts_log \in PriorAlerts
    /\ sigint = "default"
    /\ saved_s = "default"
    /\ observer = "none"
    /\ exit_code = -1
    /\ cur = NoObservation
    /\ last = NoCall
    /\ recorded = {}
    /\ int_in_flush = FALSE
    /\ ops = 0
    /\ event = NoEvent
    /\ flight = NoFlight
    /\ rd = NoRead

(***************************************************************************)
(* prepare_data_files and refresh_cache                                    *)
(***************************************************************************)
EmptyLog == [exists |-> TRUE, old |-> 0, new |-> 0, mod |-> 0]

NoLog == [exists |-> FALSE, old |-> 0, new |-> 0, mod |-> 0]

\* lines 117-120: os.remove(db.json) raises when db.json is missing, suppress(IOError)
\* swallows it and the block is left before os.remove(alerts.log)
WipedDb(wipe, db) == IF wipe /\ db.kind # "absent" THEN Absent ELSE db

WipedLog(wipe, db, log) == IF wipe /\ db.kind # "absent" THEN NoLog ELSE log

\* lines 126-129: json.dump([]) when db.json cannot be opened
EnsuredDb(db) == IF db.kind = "absent" THEN Complete(<<>>) ELSE db

\* lines 131-134
EnsuredLog(log) == IF log.exists THEN log ELSE EmptyLog

\* lines 104-110: the exception of open or json.load is printed, cached_db is kept
refresh_cache(cache, db) ==
    IF db.kind = "ok" THEN [set |-> TRUE, data |-> db.data] ELSE cache

PrepareDataFiles ==
    /\ pc = "main"
    /\ LET db == EnsuredDb(WipedDb(args.wipe, db_json))
           log == EnsuredLog(WipedLog(args.wipe, db_json, alerts_log))
       IN  /\ db_json' = db
           /\ alerts_log' = log
           /\ cached_db' = refresh_cache(cached_db, db)
    /\ pc' = "prepared"
    /\ UNCHANGED <<flight, rd, event, args, opc, sigint, saved_s, observer, exit_code, cur, last, recorded,
                   int_in_flush, ops>>

RefreshCache ==
    /\ Running
    /\ opc = "idle"
    /\ cached_db' = refresh_cache(cached_db, db_json)
    /\ UNCHANGED <<flight, rd, event, args, pc, opc, db_json, alerts_log, sigint, saved_s, observer, exit_code,
                   cur, last, recorded, int_in_flush, ops>>

(***************************************************************************)
(* scan and signal_handler                                                 *)
(***************************************************************************)

\* lines 201-203: exit() without an argument ends the process with status 0
ScanIsDir ==
    /\ pc \in {"main", "prepared"}
    /\ IF args.isdir
       THEN pc' = "checked" /\ UNCHANGED exit_code
       ELSE pc' = "exited" /\ exit_code' = 0
    /\ UNCHANGED <<flight, rd, event, args, opc, cached_db, db_json, alerts_log, sigint, saved_s, observer,
                   cur, last, recorded, int_in_flush, ops>>

\* lines 209-211
ObserverStart ==
    /\ pc = "checked"
    /\ observer' = "running"
    /\ pc' = "started"
    /\ UNCHANGED <<flight, rd, event, args, opc, cached_db, db_json, alerts_log, sigint, saved_s, exit_code,
                   cur, last, recorded, int_in_flush, ops>>

\* line 212, then observer.join()
InstallHandler ==
    /\ pc = "started"
    /\ opc = "idle"
    /\ sigint' = "handler"
    /\ pc' = "watching"
    /\ UNCHANGED <<flight, rd, event, args, opc, cached_db, db_json, alerts_log, saved_s, observer, exit_code,
                   cur, last, recorded, int_in_flush, ops>>

\* A SIGINT is sent to the process.  SIG_IGN discards it; the handler of line 212 is
\* signal_handler (lines 191-193); Python's default handler raises KeyboardInterrupt,
\* which nothing catches.
SigInt ==
    /\ pc # "exited"
    /\ IF sigint = "ignore"
       THEN /\ int_in_flush' = (int_in_flush \/ opc # "idle")
            /\ UNCHANGED <<pc, observer, exit_code>>
       ELSE IF sigint = "handler"
       THEN /\ observer' = "stopped"
            /\ exit_code' = 0
            /\ pc' = "exited"
            /\ UNCHANGED int_in_flush
       ELSE /\ exit_code' = 130
            /\ pc' = "exited"
            /\ UNCHANGED <<observer, int_in_flush>>
    /\ UNCHANGED <<flight, rd, event, args, opc, cached_db, db_json, alerts_log, sigint, saved_s, cur, last,
                   recorded, ops>>

EventTypes == {"modified", "created", "moved", "deleted"}

\* lines 147-171: the observer thread hands an event to on_modified, on_created,
\* on_deleted or on_moved; each calls process, which prints the event and returns.
\* sha256 is the digest of the file the event is about (no code reads it).
Process ==
    /\ Alive
    /\ observer = "running"
    /\ \E p \in Paths, d \in Digests, t \in EventTypes, dir \in BOOLEAN :
          event' = [src_path |-> p, sha256 |-> d, event_type |-> t, is_directory |-> dir]
    /\ UNCHANGED <<flight, rd, args, pc, opc, cached_db, db_json, alerts_log, sigint, saved_s, observer,
                   exit_code, cur, last, recorded, int_in_flush, ops>>

(***************************************************************************)
(* The caller: an observation is classified, then handed to the recorders  *)
(***************************************************************************)
Observe ==
    /\ Running
    /\ opc = "idle"
    /\ cached_db.set        \* iterating None raises TypeError
    /\ \E p \in Paths, d \in Digests :
          cur' = [path |-> p, sha256 |-> d,
                  status |-> check_file_status(cached_db.data, [path |-> p, sha256 |-> d]),
                  added |-> FALSE, alerted |-> FALSE]
    /\ UNCHANGED <<flight, rd, event, args, pc, opc, cached_db, db_json, alerts_log, sigint, saved_s, observer,
                   exit_code, last, recorded, int_in_flush, ops>>

\* lines 91-101, up to the call of write_to_db
AddFileToDb ==
    /\ Running
    /\ opc = "idle"
    /\ ops < MaxOps
    /\ cur.status = FILE_UNKNOWN
    /\ ~cur.added
    /\ ops' = ops + 1
    /\ cur' = [cur EXCEPT !.added = TRUE]
    /\ IF db_json.kind = "ok"
       THEN /\ cached_db' = [set |-> TRUE, data |-> Append(db_json.data, FileInfoToAdd(cur))]
            /\ last' = [op |-> "add_file_to_db", status |-> cur.status, loaded |-> TRUE,
                        before |-> db_json.data, new |-> 0, mod |-> 0]
            /\ recorded' = recorded \cup {<<cur.path, cur.sha256, "add_file_to_db">>}
            /\ opc' = "w_enter"
       ELSE /\ last' = [op |-> "add_file_to_db", status |-> cur.status, loaded |-> FALSE,
                        before |-> <<>>, new |-> 0, mod |-> 0]
            /\ UNCHANGED <<cached_db, recorded, opc>>
    /\ UNCHANGED <<flight, rd, event, args, pc, db_json, alerts_log, sigint, saved_s, observer, exit_code,
                   int_in_flush>>

\* lines 64-82, up to the call of write_to_db
AddAlertDoDb ==
    /\ Running
    /\ opc = "idle"
    /\ ops < MaxOps
    /\ cur.status # "NONE"
    /\ ~cur.alerted
    /\ ops' = ops + 1
    /\ cur' = [cur EXCEPT !.alerted = TRUE]
    /\ IF db_json.kind = "ok"
       THEN /\ cached_db' = [set |-> TRUE, data |-> UpdatedDb(db_json.data, cur)]
            /\ alerts_log' = Logged(alerts_log, LoggedNew(db_json.data, cur, cur.status),
                                    LoggedModified(db_json.data, cur, cur.status))
            /\ last' = [op |-> "add_alert_do_db", status |-> cur.status, loaded |-> TRUE,
                        before |-> db_json.data,
                        new |-> LoggedNew(db_json.data, cur, cur.status),
                        mod |-> LoggedModified(db_json.data, cur, cur.status)]
            /\ recorded' = IF cur.status = FILE_KNOWN_TOUCHED
                           THEN recorded \cup {<<cur.path, cur.sha256, "add_alert_do_db">>}
                           ELSE recorded
            /\ opc' = "w_enter"
       ELSE /\ last' = [op |-> "add_alert_do_db", status |-> cur.status, loaded |-> FALSE,
                        before |-> <<>>, new |-> 0, mod |-> 0]
            /\ UNCHANGED <<cached_db, alerts_log, recorded, opc>>
    /\ UNCHANGED <<flight, rd, event, args, pc, db_json, sigint, saved_s, observer, exit_code, int_in_flush>>

(***************************************************************************)
(* write_to_db(cached_db), line by line                                    *)
(***************************************************************************)
FlushDispositionKept(s) == s

\* line 86: the disposition while the file is written
FlushDisposition(s) == "ignore"

WSigIgn ==
    /\ Alive
    /\ opc = "w_enter"
    /\ saved_s' = sigint
    /\ sigint' = FlushDisposition(sigint)
    /\ opc' = "w_open"
    /\ UNCHANGED <<flight, rd, event, args, pc, cached_db, db_json, alerts_log, observer, exit_code, cur, last,
                   recorded, int_in_flush, ops>>

\* line 87: open(..., 'w') truncates the file
WOpen ==
    /\ Alive
    /\ opc = "w_open"
    /\ db_json' = Truncated
    /\ opc' = "w_dump"
    /\ UNCHANGED <<flight, rd, event, args, pc, cached_db, alerts_log, sigint, saved_s, observer, exit_code, cur,
                   last, recorded, int_in_flush, ops>>

\* line 87: json.dump writes the text piece by piece
WDump ==
    /\ Alive
    /\ opc = "w_dump"
    /\ db_json' = Partial
    /\ opc' = "w_close"
    /\ UNCHANGED <<flight, rd, event, args, pc, cached_db, alerts_log, sigint, saved_s, observer, exit_code, cur,
                   last, recorded, int_in_flush, ops>>

\* line 87: the last piece is written and the file object is released
WClose ==
    /\ Alive
    /\ opc = "w_close"
    /\ db_json' = Complete(cached_db.data)
    /\ opc' = "w_restore"
    /\ UNCHANGED <<flight, rd, event, args, pc, cached_db, alerts_log, sigint, saved_s, observer, exit_code, cur,
                   last, recorded, int_in_flush, ops>>

\* line 88
WRestore ==
    /\ Alive
    /\ opc = "w_restore"
    /\ sigint' = saved_s
    /\ opc' = "w_ret"
    /\ UNCHANGED <<flight, rd, event, args, pc, cached_db, db_json, alerts_log, saved_s, observer, exit_code, cur,
                   last, recorded, int_in_flush, ops>>

WReturn ==
    /\ Alive
    /\ opc = "w_ret"
    /\ opc' = "idle"
    /\ UNCHANGED <<flight, rd, event, args, pc, cached_db, db_json, alerts_log, sigint, saved_s, observer,
                   exit_code, cur, last, recorded, int_in_flush, ops>>

\* line 87 raises (open refused, or the disk fills while json.dump writes): the
\* exception leaves write_to_db before line 88 and the caller goes on
WOpenFail ==
    /\ Alive
    /\ opc = "w_open"
    /\ opc' = "idle"
    /\ UNCHANGED <<flight, rd, event, args, pc, cached_db, db_json, alerts_log, sigint, saved_s, observer,
                   exit_code, cur, last, recorded, int_in_flush, ops>>

WDumpFail ==
    /\ Alive
    /\ opc \in {"w_dump", "w_close"}
    /\ opc' = "idle"
    /\ UNCHANGED <<flight, rd, event, args, pc, cached_db, db_json, alerts_log, sigint, saved_s, observer,
                   exit_code, cur, last, recorded, int_in_flush, ops>>

Flush == WSigIgn \/ WOpen \/ WDump \/ WClose \/ WRestore \/ WReturn

Next ==
    \/ PrepareDataFiles
    \/ RefreshCache
    \/ ScanIsDir
    \/ ObserverStart
    \/ InstallHandler
    \/ SigInt
    \/ Observe
    \/ AddFileToDb
    \/ AddAlertDoDb
    \/ Flush

Spec == Init /\ [][Next]_vars

\* the same program on a disk whose writes can fail
NextFail == Next \/ WOpenFail \/ WDumpFail

SpecFail == Init /\ [][NextFail]_vars

\* binsnitch.py as main runs it (lines 216-229): args_parser, then scan, whose observer
\* hands the events to ChangeHandler; prepare_data_files is not called (line 227)
NextWatch == ScanIsDir \/ ObserverStart \/ InstallHandler \/ SigInt \/ Process

SpecWatch == Init /\ [][NextWatch]_vars

(***************************************************************************)
(* A recorder call taken line by line, while a second thread calls         *)
(* check_file_status.  binsnitch.py starts no such thread; the observer    *)
(* hands its events to one handler at a time.                              *)
(***************************************************************************)
GlobalAliased(cache, local) == local

\* lines 67-73, 94-99: db_data is a local name for the list json.load has built; the
\* global cached_db names the list it named before, until line 81 / 100
Global(cache, local) == cache

\* lines 70-73, 97-99: the list the recorder makes of the one it loaded
Built(op, db_data, file_info) ==
    IF op = "add_file_to_db" THEN Append(db_data, FileInfoToAdd(file_info))
    ELSE UpdatedDb(db_data, file_info)

\* lines 67-68, 94-95: the recorder is entered and loads db.json
ConcLoad ==
    /\ Running
    /\ opc = "idle"
    /\ ops < MaxConcOps
    /\ rd.pc # "iter"
    /\ \E op \in {"add_file_to_db", "add_alert_do_db"} :
          /\ IF op = "add_file_to_db"
             THEN cur.status = FILE_UNKNOWN /\ ~cur.added /\ cur' = [cur EXCEPT !.added = TRUE]
             ELSE cur.status # "NONE" /\ ~cur.alerted /\ cur' = [cur EXCEPT !.alerted = TRUE]
          /\ IF db_json.kind = "ok"
             THEN /\ flight' = [op |-> op, pre |-> cached_db.data, db_data |-> db_json.data]
                  /\ cached_db' = Global(cached_db, [set |-> TRUE, data |-> db_json.data])
                  /\ last' = [op |-> op, status |-> cur.status, loaded |-> TRUE,
                              before |-> db_json.data,
                              new |-> IF op = "add_file_to_db" THEN 0
                                      ELSE LoggedNew(db_json.data, cur, cur.status),
                              mod |-> IF op = "add_file_to_db" THEN 0
                                      ELSE LoggedModified(db_json.data, cur, cur.status)]
                  /\ opc' = "c_loaded"
             ELSE /\ last' = [op |-> op, status |-> cur.status, loaded |-> FALSE,
                              before |-> <<>>, new |-> 0, mod |-> 0]
                  /\ UNCHANGED <<flight, cached_db, opc>>
    /\ ops' = ops + 1
    /\ rd' = NoRead
    /\ UNCHANGED <<args, pc, db_json, alerts_log, sigint, saved_s, observer, exit_code,
                   recorded, int_in_flush, event>>

\* lines 70-79, 97-99: the loop over db_data, or the append to it
ConcMutate ==
    /\ Alive
    /\ opc = "c_loaded"
    /\ LET built == Built(flight.op, flight.db_data, cur)
       IN  /\ flight' = [flight EXCEPT !.db_data = built]
           /\ cached_db' = Global(cached_db, [set |-> TRUE, data |-> built])
    /\ alerts_log' = Logged(alerts_log, last.new, last.mod)
    /\ recorded' = IF flight.op = "add_file_to_db" \/ cur.status = FILE_KNOWN_TOUCHED
                   THEN recorded \cup {<<cur.path, cur.sha256, flight.op>>}
                   ELSE recorded
    /\ opc' = "c_mutated"
    /\ UNCHANGED <<args, pc, db_json, sigint, saved_s, observer, exit_code, cur, last,
                   int_in_flush, ops, event, rd>>

\* lines 81, 100: cached_db = db_data; write_to_db is entered next
ConcPublish ==
    /\ Alive
    /\ opc = "c_mutated"
    /\ cached_db' = [set |-> TRUE, data |-> flight.db_data]
    /\ opc' = "w_enter"
    /\ UNCHANGED <<args, pc, db_json, alerts_log, sigint, saved_s, observer, exit_code, cur,
                   last, recorded, int_in_flush, ops, event, flight, rd>>

\* line 51: the second thread enters check_file_status for the path the recorder works
\* on; the for statement evaluates cached_db once and iterates the list it got
ReadBegin ==
    /\ Alive
    /\ opc # "idle"
    /\ rd.pc = "none"
    /\ cached_db.set
    /\ \E d \in Digests :
          rd' = [pc |-> "iter", path |-> cur.path, sha256 |-> d, list |-> cached_db.data,
                 status |-> "NONE"]
    /\ UNCHANGED <<args, pc, opc, cached_db, db_json, alerts_log, sigint, saved_s, observer,
                   exit_code, cur, last, recorded, int_in_flush, ops, event, flight>>

\* lines 51-61: the loop over that list, and the return
ReadReturn ==
    /\ Alive
    /\ rd.pc = "iter"
    /\ rd' = [rd EXCEPT !.pc = "done", !.list = <<>>,
                        !.status = check_file_status(rd.list, rd)]
    /\ UNCHANGED <<args, pc, opc, cached_db, db_json, alerts_log, sigint, saved_s, observer,
                   exit_code, cur, last, recorded, int_in_flush, ops, event, flight>>

NextConc ==
    \/ PrepareDataFiles
    \/ ScanIsDir
    \/ ObserverStart
    \/ InstallHandler
    \/ Observe
    \/ ConcLoad
    \/ ConcMutate
    \/ ConcPublish
    \/ ReadBegin
    \/ ReadReturn
    \/ Flush
    \/ WOpenFail
    \/ WDumpFail

\* the command line "binsnitch.py dir" with dir an existing directory and no option
InitConc ==
    /\ Init
    /\ args = [wipe |-> FALSE, baseline |-> FALSE, new |-> FALSE, isdir |-> TRUE]

SpecConc == InitConc /\ [][NextConc]_vars

(***************************************************************************)
(* Properties                                                              *)
(***************************************************************************)
Tracked(db, path) == \E i \in 1..Len(db) : db[i].path = path

\* the digest history check_file_status reads for a tracked path
HistoryOf(db, path) ==
    db[CHOOSE i \in 1..Len(db) :
          db[i].path = path /\ \A j \in 1..Len(db) : db[j].path = path => i <= j].sha256

IsPrefix(s, t) == Len(s) <= Len(t) /\ \A i \in 1..Len(s) : s[i] = t[i]

\* the observation has been classified and no recorder has been called for it yet
Fresh == cur.status # "NONE" /\ ~cur.added /\ ~cur.alerted /\ opc = "idle"

Observation(r) == [path |-> r[1], sha256 |-> r[2]]

\* C1: once an observation (path, digest) has been recorded, every later observation
\* of it is classified FILE_KNOWN_UNTOUCHED, and handling it (add_alert_do_db is the
\* recorder the code has for a known path) starts no write of db.json, changes no
\* digest history and logs no alert.
C1_IdempotentNoWrite ==
    [][ /\ \A r \in recorded :
              check_file_status(cached_db.data, Observation(r)) = FILE_KNOWN_UNTOUCHED
        /\ ( /\ cur.status = FILE_KNOWN_UNTOUCHED
             /\ opc = "idle"
             /\ cur'.path = cur.path /\ cur'.sha256 = cur.sha256 /\ cur'.status = cur.status )
           => ( /\ opc' = "idle"
                /\ db_json' = db_json
                /\ cached_db' = cached_db
                /\ alerts_log' = alerts_log ) ]_vars

\* C2: a path with no record in the registry is classified FILE_UNKNOWN; add_file_to_db
\* appends the record (path, [digest]) to the list it loaded, and from then on the same
\* path and digest are classified FILE_KNOWN_UNTOUCHED.
C2_NewFileDetection ==
    /\ (Fresh /\ ~Tracked(cached_db.data, cur.path)) => cur.status = FILE_UNKNOWN
    /\ (last.op = "add_file_to_db" /\ last.loaded /\ cur.added /\ ~cur.alerted)
          => /\ cached_db.data =
                   Append(last.before, [path |-> cur.path, sha256 |-> <<cur.sha256>>])
             /\ HistoryOf(cached_db.data, cur.path) = <<cur.sha256>>
    /\ \A r \in recorded :
          r[3] = "add_file_to_db"
             => check_file_status(cached_db.data, Observation(r)) = FILE_KNOWN_UNTOUCHED
    /\ (Fresh /\ <<cur.path, cur.sha256, "add_file_to_db">> \in recorded)
          => cur.status = FILE_KNOWN_UNTOUCHED

\* a second observation of a path and digest that add_file_to_db recorded
C2_Witness ==
    /\ Fresh
    /\ <<cur.path, cur.sha256, "add_file_to_db">> \in recorded
    /\ cur.status = FILE_KNOWN_UNTOUCHED
    /\ Len(cached_db.data) = 2

\* C3: for a tracked path a digest equal to no entry of its history is classified
\* FILE_KNOWN_TOUCHED; after add_alert_do_db the digest is in the path's history, and
\* from then on the same path and digest are classified FILE_KNOWN_UNTOUCHED.
C3_ChangeDetection ==
    /\ ( /\ Fresh
         /\ Tracked(cached_db.data, cur.path)
         /\ \A i \in 1..Len(HistoryOf(cached_db.data, cur.path)) :
               HistoryOf(cached_db.data, cur.path)[i] # cur.sha256 )
          => cur.status = FILE_KNOWN_TOUCHED
    /\ \A r \in recorded :
          r[3] = "add_alert_do_db"
             => /\ Tracked(cached_db.data, r[1])
                /\ \E i \in 1..Len(HistoryOf(cached_db.data, r[1])) :
                      HistoryOf(cached_db.data, r[1])[i] = r[2]
                /\ check_file_status(cached_db.data, Observation(r)) = FILE_KNOWN_UNTOUCHED
    /\ (Fresh /\ <<cur.path, cur.sha256, "add_alert_do_db">> \in recorded)
          => cur.status = FILE_KNOWN_UNTOUCHED

\* a later observation of a digest that add_alert_do_db appended as a change
C3_Witness ==
    /\ Fresh
    /\ <<cur.path, cur.sha256, "add_alert_do_db">> \in recorded
    /\ cur.status = FILE_KNOWN_UNTOUCHED
    /\ Len(HistoryOf(cached_db.data, cur.path)) = 2

\* C4: after every step of the running program, also one that follows a failed flush,
\* each tracked path is still tracked and its history before the step is a prefix of
\* its history after the step.
C4_HistoryMonotonic ==
    [][ Running =>
          \A i \in 1..Len(cached_db.data) :
              /\ Tracked(cached_db'.data, cached_db.data[i].path)
              /\ IsPrefix(HistoryOf(cached_db.data, cached_db.data[i].path),
                          HistoryOf(cached_db'.data, cached_db.data[i].path)) ]_vars

\* C5: for a tracked path a digest equal to any entry of its history, whatever its
\* position, is classified FILE_KNOWN_UNTOUCHED, and add_alert_do_db called for such an
\* observation leaves the list it loaded unchanged.
C5_SeenBefore ==
    /\ ( /\ Fresh
         /\ Tracked(cached_db.data, cur.path)
         /\ \E i \in 1..Len(HistoryOf(cached_db.data, cur.path)) :
               HistoryOf(cached_db.data, cur.path)[i] = cur.sha256 )
          => cur.status = FILE_KNOWN_UNTOUCHED
    /\ (last.op = "add_alert_do_db" /\ last.loaded /\ last.status = FILE_KNOWN_UNTOUCHED)
          => cached_db.data = last.before

\* add_alert_do_db has handled a digest that is in the history but is not its last entry
C5_Witness ==
    /\ last.op = "add_alert_do_db" /\ last.loaded /\ last.status = FILE_KNOWN_UNTOUCHED
    /\ cur.alerted
    /\ opc = "idle"
    /\ LET h == HistoryOf(cached_db.data, cur.path)
       IN  Len(h) = 2 /\ h[1] = cur.sha256 /\ h[2] # cur.sha256

\* C6: with --baseline, FILE_UNKNOWN and FILE_KNOWN_TOUCHED observations are recorded
\* but no 'New file detected' and no 'Modified file detected' line is ever logged.
C6_BaselineSuppression ==
    args.baseline =>
        /\ alerts_log.new = 0
        /\ alerts_log.mod = 0
        /\ \A r \in recorded : Tracked(cached_db.data, r[1])

\* C7: without --new and without --baseline, a FILE_UNKNOWN observation adds the path
\* and logs nothing, and a FILE_KNOWN_TOUCHED observation logs exactly one
\* 'Modified file detected' line.
C7_AlertGating ==
    (~args.new /\ ~args.baseline) =>
        /\ (cur.status = FILE_UNKNOWN /\ cur.added) => Tracked(cached_db.data, cur.path)
        /\ (cur.status = FILE_UNKNOWN /\ cur.alerted /\ last.op = "add_alert_do_db")
              => (last.new = 0 /\ last.mod = 0)
        /\ (last.op = "add_alert_do_db" /\ last.loaded /\ last.status = FILE_KNOWN_TOUCHED)
              => (last.mod = 1 /\ last.new = 0)

\* C8: when a SIGINT ends the process inside write_to_db, db.json holds the complete
\* list that was loaded before the update or the complete updated list.
C8_FlushCrashSafe ==
    (pc = "exited" /\ opc # "idle")
        => (db_json = Complete(last.before) \/ db_json = Complete(cached_db.data))

\* a SIGINT came while db.json was being written, and the process was ended by a later
\* SIGINT before write_to_db returned, with the updated list on disk
C8_Witness ==
    /\ pc = "exited"
    /\ opc = "w_ret"
    /\ int_in_flush
    /\ db_json = Complete(cached_db.data)
    /\ cached_db.data # last.before

\* C9: a SIGINT that arrives while write_to_db is flushing does not end the process
\* before the flush is complete, and once the flush is complete the process does
\* nothing else than stop the observer and exit.
C9_DeferredTermination ==
    [][ (int_in_flush /\ Alive) =>
            /\ (opc \in {"w_open", "w_dump", "w_close", "w_restore"}) => pc' = pc
            /\ (opc = "idle") => (pc' = "exited" /\ observer' = "stopped") ]_vars

\* C10: after prepare_data_files with --wipe, db.json holds an empty list, cached_db is
\* empty and alerts.log has no line, whatever the two files held before.
C10_Wipe ==
    (pc = "prepared" /\ args.wipe) =>
        /\ db_json = Complete(<<>>)
        /\ cached_db = [set |-> TRUE, data |-> <<>>]
        /\ alerts_log.old + alerts_log.new + alerts_log.mod = 0

\* C11: once ChangeHandler has handled a created or modified event for a regular
\* file, the registry holds that path with the file's digest in its history.
C11_NoMissedDetection ==
    (event.event_type \in {"created", "modified"} /\ ~event.is_directory)
        => /\ Tracked(cached_db.data, event.src_path)
           /\ InHistory(HistoryOf(cached_db.data, event.src_path), event.sha256)

\* C12: when the target is not a directory the process ends with a non-zero exit
\* status, and no observer has been scheduled or started.
C12_InvalidTarget ==
    (~args.isdir /\ pc = "exited") => (observer = "none" /\ exit_code # 0)

\* C13: a process that had started its observer and has ended, has stopped the
\* observer and exited with status 0.
C13_CleanShutdown ==
    (pc = "exited" /\ observer # "none") => (observer = "stopped" /\ exit_code = 0)

\* C14: when prepare_data_files has returned, cached_db holds the list of db.json
\* (a db.json that cannot be parsed stops the process instead); no observation is
\* classified with cached_db unset.
C14_CorruptRegistryFatal ==
    /\ pc = "prepared" => cached_db.set
    /\ cur.status # "NONE" => cached_db.set

\* the list holds the observation: its path with its digest in the history
Holds(db, r) == Tracked(db, r[1]) /\ InHistory(HistoryOf(db, r[1]), r[2])

\* C15: every flush that succeeds leaves in db.json all the updates handed to the
\* recorders so far, those whose own flush failed included.
C15_UpdateNotLost ==
    opc \in {"w_restore", "w_ret"} => \A r \in recorded : Holds(db_json.data, r)

UniquePaths(db) == \A i, j \in 1..Len(db) : db[i].path = db[j].path => i = j

NonEmptyHistories(db) == \A i \in 1..Len(db) : Len(db[i].sha256) > 0

\* a recorder has been called for the observation cur and has loaded the registry
Recorded == (cur.added \/ cur.alerted) /\ last.loaded

\* C17: every tracked path has a non-empty history, and once an observation has been
\* handed to a recorder, the last digest of its path's history is its digest (also when
\* that digest was recorded before a different one: A, B, A).
C17_CurrentKnownDigest ==
    /\ NonEmptyHistories(cached_db.data) /\ NonEmptyHistories(db_json.data)
    /\ (Recorded /\ Tracked(cached_db.data, cur.path))
          => LET h == HistoryOf(cached_db.data, cur.path) IN h[Len(h)] = cur.sha256

\* C20: outside write_to_db SIGINT is never ignored: when write_to_db is left, by its
\* return or by an exception of the write, the disposition is the one it found.
C20_DispositionRestored ==
    /\ opc = "idle" => sigint # "ignore"
    /\ opc = "w_ret" => sigint = saved_s

FlightPost ==
    IF opc = "c_loaded" THEN Built(flight.op, flight.db_data, cur) ELSE flight.db_data

\* C18: a check_file_status call that ran while a recorder call was in flight returns
\* what it returns for cached_db as it was before that call or as it is after it.
C18_ConsistentReads ==
    rd.pc = "done" => rd.status \in {check_file_status(flight.pre, rd),
                                     check_file_status(FlightPost, rd)}

\* the reader took cached_db before line 81 / 100 and returned after it, with the
\* classification of the earlier list, which differs from that of the later one
C18_Witness ==
    /\ rd.pc = "done"
    /\ opc \in {"w_enter", "w_open", "w_dump", "w_close", "w_restore", "w_ret"}
    /\ rd.status = check_file_status(flight.pre, rd)
    /\ rd.status # check_file_status(FlightPost, rd)

====
